---- MODULE Spec2Model ----
(***************************************************************************)
(* The /rustdoc slash command (crates/assistant/src/slash_command/         *)
(* rustdoc_command.rs): argument parsing, the lookup fallback chain        *)
(* Store.load -> fs.load -> docs.rs, the index dispatcher, the             *)
(* background/foreground handoff, and argument completion.                 *)
(*                                                                         *)
(* Strings are sequences of atoms.  Every atom is one character, except    *)
(* the literals the code itself writes ("--index", "https://docs.rs/",     *)
(* "/latest/", "Indexed ") and the document texts of the collaborators.    *)
(***************************************************************************)
EXTENDS Integers, Sequences, FiniteSets, TLC

\* Longest argument string, in atoms.
MaxLen == 4

\* Most matches one Store.search answer holds.
MaxMatches == 2

\* ---------------------------------------------------------------- values

None == [some |-> FALSE]

Some(x) == [some |-> TRUE, val |-> x]

Ok(v) == [ok |-> TRUE, val |-> v]

Err(e) == [ok |-> FALSE, err |-> e]

\* An anyhow error with its message.
Error(message) == [kind |-> message]

\* anyhow's Context::context: a new error with this message, the error it
\* was made from kept as its source.
Context(error, message) == [kind |-> message, source |-> error]

\* The atoms an argument is written with: a name character, the characters
\* the parser and the path/URL builders treat specially, and the flag.
ArgAtoms == {"a", ":", " ", "\t", "/", "--index"}

RECURSIVE SeqsUpTo(_, _)
SeqsUpTo(S, n) ==
    IF n = 0 THEN {<<>>}
    ELSE LET shorter == SeqsUpTo(S, n - 1)
         IN  shorter \cup {Append(s, x) : s \in {t \in shorter : Len(t) = n - 1}, x \in S}

\* The arguments the documentation of the command gives for examples, names
\* written as one atom each, and variations of them.
Examples ==
    {<<"tokio", ":", ":", "sync", ":", ":", "Mutex">>,
     <<"tokio", ":", ":", " ", "sync", ":", ":", " ", "Mutex">>,
     <<"serde">>,
     <<"--index", " ", "serde">>,
     <<"tokio", " ", "--index", " ", "serde">>,
     <<"--index", " ", "a", " ", "--index">>,
     <<"tokio", " ", "--index", " ", "a", " ", "--index", " ", "serde">>}

Arguments == SeqsUpTo(ArgAtoms, MaxLen) \cup Examples

\* ---------------------------------------------------------------- strings

\* str::len: the length in bytes.
RECURSIVE ByteLen(_)
ByteLen(s) == IF s = <<>> THEN 0 ELSE Len(Head(s)) + ByteLen(Tail(s))

\* str::split(pat) for a pattern of one or two characters: the pieces between
\* the non-overlapping matches found left to right; always at least one piece.
RECURSIVE SplitFrom(_, _, _, _)
SplitFrom(s, pat, i, piece) ==
    IF i > Len(s) THEN <<piece>>
    ELSE IF i + Len(pat) - 1 <= Len(s) /\ SubSeq(s, i, i + Len(pat) - 1) = pat
         THEN <<piece>> \o SplitFrom(s, pat, i + Len(pat), <<>>)
         ELSE SplitFrom(s, pat, i + 1, Append(piece, s[i]))

Split(s, pat) == SplitFrom(s, pat, 1, <<>>)

IsWhitespace(c) == c \in {" ", "\t"}

\* str::trim: leading and trailing whitespace removed.
RECURSIVE TrimStart(_)
TrimStart(s) ==
    IF s # <<>> /\ IsWhitespace(Head(s)) THEN TrimStart(Tail(s)) ELSE s

RECURSIVE TrimEnd(_)
TrimEnd(s) ==
    IF s # <<>> /\ IsWhitespace(s[Len(s)]) THEN TrimEnd(SubSeq(s, 1, Len(s) - 1)) ELSE s

Trim(s) == TrimEnd(TrimStart(s))

\* [String]::join(sep).
RECURSIVE Join(_, _)
Join(segs, sep) ==
    IF segs = <<>> THEN <<>>
    ELSE IF Len(segs) = 1 THEN segs[1]
    ELSE segs[1] \o sep \o Join(Tail(segs), sep)

RECURSIVE MapTrim(_)
MapTrim(words) ==
    IF words = <<>> THEN <<>> ELSE <<Trim(Head(words))>> \o MapTrim(Tail(words))

\* ---------------------------------------------------------------- paths

\* A Path is the sequence of its normal components under the filesystem
\* root (all paths here are absolute); <<>> is "/".

\* Path::components of a string: empty components (repeated or trailing
\* separators) are dropped.
RECURSIVE DropEmpty(_)
DropEmpty(parts) ==
    IF parts = <<>> THEN <<>>
    ELSE IF Head(parts) = <<>> THEN DropEmpty(Tail(parts))
    ELSE <<Head(parts)>> \o DropEmpty(Tail(parts))

Components(s) == DropEmpty(Split(s, <<"/">>))

IsAbsolute(s) == s # <<>> /\ Head(s) = "/"

\* PathBuf::push: an absolute argument replaces the path, a relative one is
\* appended to it.
PathPush(path, s) == IF IsAbsolute(s) THEN Components(s) ELSE path \o Components(s)

\* Path::parent: None for the root.
PathParent(path) ==
    IF path = <<>> THEN None ELSE Some(SubSeq(path, 1, Len(path) - 1))

\* ---------------------------------------------------------------- collaborators

\* Texts the Store holds for an item (Store.load hits).
StoreDocs == {<<"# a (indexed)">>}

\* File contents / response bodies: a rustdoc page, and bytes that are not one.
GoodPage == <<"<h1>a</h1>">>

BadPage == <<"<h1">>

Pages == {GoodPage, BadPage}

\* rustdoc::convert_rustdoc_to_markdown: the markdown of a page, or an error.
convert_rustdoc_to_markdown(bytes) ==
    IF bytes = GoodPage THEN Ok(<<"# a">>) ELSE Err(Error("ConversionFailure: rustdoc page could not be converted"))

\* Response statuses the remote host answers with.
Statuses == {200, 399, 400, 404, 499, 500}

\* is_client_error taking the server errors as well.
is_client_error_AnyError(status) == status >= 400

\* is_client_error with the lower end of the class left out.
is_client_error_Above400(status) == 400 < status /\ status < 500

\* http::StatusCode::is_client_error.
is_client_error(status) == 400 <= status /\ status < 500

\* What Project::absolute_path gives for the first worktree's Cargo.toml:
\* no manifest, a path without a parent, or <workspace>/Cargo.toml.
ManifestPaths == {None, Some(<<>>), Some(<< <<"ws">>, <<"Cargo.toml">> >>)}

\* ---------------------------------------------------------------- parsing

IndexFlag == <<"--index">>

\* ParseArgs keeping the crate name of the first flag when a later flag
\* names another.
RECURSIVE ParseArgs_FirstTargetWins(_, _, _, _)
ParseArgs_FirstTargetWins(args, i, item_path, crate_name_to_index) ==
    IF i > Len(args)
    THEN Ok([item_path |-> item_path, crate_name_to_index |-> crate_name_to_index])
    ELSE IF args[i] = IndexFlag
         THEN IF i + 1 > Len(args)
              THEN Err(Error("no crate name provided to --index"))
              ELSE ParseArgs_FirstTargetWins(args, i + 2, item_path,
                       IF crate_name_to_index.some THEN crate_name_to_index
                       ELSE Some(args[i + 1]))
         ELSE ParseArgs_FirstTargetWins(args, i + 1, item_path \o args[i],
                                        crate_name_to_index)

\* ParseArgs taking a flag that ends the argument for no flag at all.
RECURSIVE ParseArgs_DanglingFlagIgnored(_, _, _, _)
ParseArgs_DanglingFlagIgnored(args, i, item_path, crate_name_to_index) ==
    IF i > Len(args)
    THEN Ok([item_path |-> item_path, crate_name_to_index |-> crate_name_to_index])
    ELSE IF args[i] = IndexFlag
         THEN IF i + 1 > Len(args)
              THEN Ok([item_path |-> item_path,
                       crate_name_to_index |-> crate_name_to_index])
              ELSE ParseArgs_DanglingFlagIgnored(args, i + 2, item_path,
                                                 Some(args[i + 1]))
         ELSE ParseArgs_DanglingFlagIgnored(args, i + 1, item_path \o args[i],
                                            crate_name_to_index)

\* The loop over the words of the argument: "--index" takes the next word as
\* the crate to index, every other word is appended to item_path.
RECURSIVE ParseArgs(_, _, _, _)
ParseArgs(args, i, item_path, crate_name_to_index) ==
    IF i > Len(args)
    THEN Ok([item_path |-> item_path, crate_name_to_index |-> crate_name_to_index])
    ELSE IF args[i] = IndexFlag
         THEN IF i + 1 > Len(args)
              THEN Err(Error("no crate name provided to --index"))
              ELSE ParseArgs(args, i + 2, item_path, Some(args[i + 1]))
         ELSE ParseArgs(args, i + 1, item_path \o args[i], crate_name_to_index)

\* argument.split(' ').map(|word| word.trim())
Words(argument) == MapTrim(Split(argument, <<" ">>))

\* item_path.split("::"): the first component is the crate name, the others
\* the item path.
PathComponents(item_path) ==
    LET path_components == Split(item_path, <<":", ":">>)
    IN  IF path_components = <<>>
        THEN Err(Error("missing crate name"))
        ELSE Ok([crate_name |-> Head(path_components),
                 item_path  |-> Tail(path_components)])

\* The synchronous part of run: what it decides from the argument.
ParseCommand(argument, workspace_alive) ==
    IF ~argument.some THEN [kind |-> "error", err |-> Error("missing crate name")]
    ELSE IF ~workspace_alive THEN [kind |-> "error", err |-> Error("workspace was dropped")]
    ELSE LET parsed == ParseArgs(Words(argument.val), 1, <<>>, None)
         IN  IF ~parsed.ok THEN [kind |-> "error", err |-> parsed.err]
             ELSE IF parsed.val.crate_name_to_index.some
             THEN [kind |-> "index", crate_name |-> parsed.val.crate_name_to_index.val]
             ELSE LET request == PathComponents(parsed.val.item_path)
                  IN  IF ~request.ok THEN [kind |-> "error", err |-> request.err]
                      ELSE [kind |-> "lookup",
                            crate_name |-> request.val.crate_name,
                            item_path  |-> request.val.item_path]

\* ---------------------------------------------------------------- build_message

\* CargoWorkspaceRoot taking the manifest path itself for the root.
CargoWorkspaceRoot_NoParent(path_to_cargo_toml) == path_to_cargo_toml

\* path_to_cargo_toml.and_then(|path| path.parent())
CargoWorkspaceRoot(path_to_cargo_toml) ==
    IF path_to_cargo_toml.some THEN PathParent(path_to_cargo_toml.val) ELSE None

\* <root>/target/doc, then crate_name, the module path and index.html pushed.
LocalCargoDocPath(cargo_workspace_root, crate_name, module_path) ==
    LET doc       == cargo_workspace_root \o Components(<<"target", "/", "doc">>)
        with_crate == PathPush(doc, crate_name)
        with_module == IF module_path # <<>>
                       THEN PathPush(with_crate, Join(module_path, <<"/">>))
                       ELSE with_crate
    IN  PathPush(with_module, <<"index.html">>)

\* https://docs.rs/{crate_name}/latest/{crate_name}/{module_path joined by "/"}
DocsRsUrl(crate_name, module_path) ==
    <<"https://docs.rs/">> \o crate_name \o <<"/latest/">> \o crate_name
        \o <<"/">> \o Join(module_path, <<"/">>)

\* The end of build_message once the body is read: a client error status
\* fails with the code and the body, anything else is converted.
RemoteResult(status, body) ==
    IF is_client_error(status)
    THEN Err([kind |-> "status error", code |-> status, response |-> body])
    ELSE LET converted == convert_rustdoc_to_markdown(body)
         IN  IF converted.ok
             THEN Ok([source |-> "DocsDotRs", text |-> converted.val])
             ELSE Err(converted.err)

\* A file that loaded: its conversion, tagged Local.
LocalResult(contents) ==
    LET converted == convert_rustdoc_to_markdown(contents)
    IN  IF converted.ok
        THEN Ok([source |-> "Local", text |-> converted.val])
        ELSE Err(converted.err)

\* What the lookup task does with the answer of Store.load.
StoreResult(item_docs) == Ok([source |-> "Local", text |-> item_docs])

\* SlashCommandOutput with the range counted in characters of the model
\* (atoms), not in bytes.
SlashCommandOutput_CharCount(text, placeholder) ==
    [text |-> text,
     sections |-> << [range |-> [start |-> 0, end |-> Len(text)],
                      render_placeholder |-> placeholder] >>,
     run_commands_in_text |-> FALSE]

\* The value of a finished command: the text, one section over all of it.
SlashCommandOutput(text, placeholder) ==
    [text |-> text,
     sections |-> << [range |-> [start |-> 0, end |-> ByteLen(text)],
                      render_placeholder |-> placeholder] >>,
     run_commands_in_text |-> FALSE]

\* ---------------------------------------------------------------- state

VARIABLES
    phase,         \* Idle, BackgroundRunning, Succeeded, Failed, Finalized, Errored
    argument,      \* the argument run was given (an Option)
    workspace,     \* whether the WeakView<Workspace> could be upgraded
    request,       \* what run decided from its argument (ParseCommand)
    manifest,      \* path_to_cargo_toml of this invocation
    pc,            \* where the background task stands
    calls,         \* the collaborator calls of this invocation, in order
    inflight,      \* collaborator calls started and not yet answered
    replies,       \* the answers the collaborators gave, in order
    bg_value,      \* the value the background task ended with
    result,        \* the value of the Task run returned, once it has one
    search,        \* the state of complete_argument
    first,         \* the invocation before this one and what it delivered
    second         \* an index invocation running at the same time

runVars == <<phase, argument, workspace, request, manifest, pc, calls, inflight, replies, bg_value, result, first, second>>

vars == <<phase, argument, workspace, request, manifest, pc, calls, inflight, replies, bg_value, result, search, first, second>>

NoRequest == [kind |-> "none"]

SecondIdle ==
    [phase |-> "Idle", crate_name |-> <<>>, manifest |-> None, calls |-> <<>>,
     replies |-> <<>>, bg_value |-> None, result |-> None]

SearchIdle ==
    [pc |-> "idle", query |-> <<>>, cancel |-> FALSE, items |-> <<>>,
     cancel_at_format |-> FALSE, completions |-> None, calls |-> 0]

Init ==
    /\ phase = "Idle"
    /\ argument = None
    /\ workspace = "unused"
    /\ request = NoRequest
    /\ manifest = None
    /\ pc = "none"
    /\ calls = <<>>
    /\ inflight = 0
    /\ replies = <<>>
    /\ bg_value = None
    /\ result = None
    /\ search = SearchIdle
    /\ first = None
    /\ second = SecondIdle

\* Complete taking every value of the background task for a success.
Complete_AlwaysSucceeded(v) ==
    /\ bg_value' = Some(v)
    /\ phase' = "Succeeded"
    /\ pc' = "done"

\* The background task ends with value v (Ok or Err).
Complete(v) ==
    /\ bg_value' = Some(v)
    /\ phase' = IF v.ok THEN "Succeeded" ELSE "Failed"
    /\ pc' = "done"

\* A collaborator is called from the background task.
Call(op, args) ==
    /\ calls' = Append(calls, [op |-> op, args |-> args, context |-> "background"])
    /\ inflight' = inflight + 1

\* The call in flight is answered.
Reply(r) ==
    /\ replies' = Append(replies, r)
    /\ inflight' = inflight - 1

\* ---------------------------------------------------------------- run

\* Run with an item-path buffer that lives on between invocations: the words
\* of this argument are appended to those of the argument before.
Run_KeepsItemPath(argument_, workspace_alive, path_to_cargo_toml) ==
    /\ phase = "Idle"
    /\ LET kept   == IF argument.some /\ argument_.some
                     THEN Some(argument.val \o argument_.val) ELSE argument_
           parsed == ParseCommand(kept, workspace_alive)
       IN  /\ argument' = argument_
           /\ workspace' = IF ~argument_.some THEN "unused"
                           ELSE IF workspace_alive THEN "alive" ELSE "dropped"
           /\ request' = parsed
           /\ manifest' = IF argument_.some /\ workspace_alive
                          THEN path_to_cargo_toml ELSE None
           /\ IF parsed.kind = "error"
              THEN /\ phase' = "Errored"
                   /\ result' = Some(Err(parsed.err))
                   /\ pc' = "none"
              ELSE /\ phase' = "BackgroundRunning"
                   /\ result' = None
                   /\ pc' = IF parsed.kind = "index" THEN "index" ELSE "store_load"
    /\ calls' = <<>>
    /\ inflight' = 0
    /\ replies' = <<>>
    /\ bg_value' = None
    /\ UNCHANGED <<search, first, second>>

\* run(argument, workspace, ..): parse, then spawn the background task of the
\* branch chosen, or return a ready error.
Run(argument_, workspace_alive, path_to_cargo_toml) ==
    /\ phase = "Idle"
    /\ LET parsed == ParseCommand(argument_, workspace_alive)
       IN  /\ argument' = argument_
           /\ workspace' = IF ~argument_.some THEN "unused"
                           ELSE IF workspace_alive THEN "alive" ELSE "dropped"
           /\ request' = parsed
           /\ manifest' = IF argument_.some /\ workspace_alive
                          THEN path_to_cargo_toml ELSE None
           /\ IF parsed.kind = "error"
              THEN /\ phase' = "Errored"
                   /\ result' = Some(Err(parsed.err))
                   /\ pc' = "none"
              ELSE /\ phase' = "BackgroundRunning"
                   /\ result' = None
                   /\ pc' = IF parsed.kind = "index" THEN "index" ELSE "store_load"
    /\ calls' = <<>>
    /\ inflight' = 0
    /\ replies' = <<>>
    /\ bg_value' = None
    /\ UNCHANGED <<search, first, second>>

\* ---------------------------------------------------------------- lookup

\* Answers of the collaborators.
StoreLoadReplies == {Err(Error("StoreMiss"))} \cup {Ok(t) : t \in StoreDocs}

FsLoadReplies == {Err(Error("LocalReadMiss"))} \cup {Ok(p) : p \in Pages}

HttpGetReplies == {Err(Error("TransportError"))} \cup {Ok([status |-> s]) : s \in Statuses}

ReadBodyReplies ==
    {Err(Error("connection reset"))} \cup {Ok(p) : p \in Pages}

StoreIndexReplies == {Err(Error("StoreIndexError")), Ok("indexed")}

\* rustdoc_store.load(crate_name, Some(item_path.join("::")))
StoreLoadArgs(crate_name, item_path) ==
    [crate_name |-> crate_name, item_path |-> Some(Join(item_path, <<":", ":">>))]

\* Where build_message starts: at the local file when there is a workspace
\* root, at docs.rs otherwise.
BuildMessageEntry(path_to_cargo_toml) ==
    IF CargoWorkspaceRoot(path_to_cargo_toml).some THEN "fs_load" ELSE "http_get"

\* AfterStoreLoad failing a lookup that has no workspace root.
AfterStoreLoad_NeedsRoot(item_docs, path_to_cargo_toml) ==
    IF item_docs.ok
    THEN [done |-> TRUE, value |-> StoreResult(item_docs.val)]
    ELSE IF CargoWorkspaceRoot(path_to_cargo_toml).some
         THEN [done |-> FALSE, pc |-> BuildMessageEntry(path_to_cargo_toml)]
         ELSE [done |-> TRUE, value |-> Err(Error("no Cargo workspace root found"))]

\* AfterStoreLoad going on to build_message whatever the Store answered.
AfterStoreLoad_IgnoresHit(item_docs, path_to_cargo_toml) ==
    [done |-> FALSE, pc |-> BuildMessageEntry(path_to_cargo_toml)]

\* What follows an answer of Store.load: a hit is the result, anything else
\* goes on to build_message.
AfterStoreLoad(item_docs, path_to_cargo_toml) ==
    IF item_docs.ok
    THEN [done |-> TRUE, value |-> StoreResult(item_docs.val)]
    ELSE [done |-> FALSE, pc |-> BuildMessageEntry(path_to_cargo_toml)]

\* AfterFsLoad going on to docs.rs when the file cannot be converted.
AfterFsLoad_SwallowsConversion(contents) ==
    IF contents.ok /\ LocalResult(contents.val).ok
    THEN [done |-> TRUE, value |-> LocalResult(contents.val)]
    ELSE [done |-> FALSE, pc |-> "http_get"]

\* AfterFsLoad trying the file again after a miss.
AfterFsLoad_Retries(contents) ==
    IF contents.ok
    THEN [done |-> TRUE, value |-> LocalResult(contents.val)]
    ELSE [done |-> FALSE, pc |-> "fs_load"]

\* What follows an answer of fs.load: a file that loaded is the result
\* (converted, or the conversion's error), anything else goes on to docs.rs.
AfterFsLoad(contents) ==
    IF contents.ok
    THEN [done |-> TRUE, value |-> LocalResult(contents.val)]
    ELSE [done |-> FALSE, pc |-> "http_get"]

\* What follows the answer to the GET: a transport error ends the task.
AfterHttpGet(response) ==
    IF response.ok
    THEN [done |-> FALSE, pc |-> "read_body"]
    ELSE [done |-> TRUE, value |-> response]

\* What follows reading the body: a read error ends the task with the error
\* put under the context "error reading docs.rs response body", a body goes
\* through the status check and the conversion.
AfterReadBody(status, body) ==
    IF body.ok
    THEN [done |-> TRUE, value |-> RemoteResult(status, body.val)]
    ELSE [done |-> TRUE,
          value |-> Err(Context(body.err, "error reading docs.rs response body"))]

Continue(step) ==
    IF step.done
    THEN Complete(step.value)
    ELSE /\ pc' = step.pc
         /\ UNCHANGED <<phase, bg_value>>

StoreLoadCall ==
    /\ phase = "BackgroundRunning" /\ pc = "store_load"
    /\ Call("Store.load", StoreLoadArgs(request.crate_name, request.item_path))
    /\ pc' = "store_load_wait"
    /\ UNCHANGED <<phase, argument, workspace, request, manifest, replies, bg_value, result, search, first, second>>

StoreLoadReturn(item_docs) ==
    /\ phase = "BackgroundRunning" /\ pc = "store_load_wait"
    /\ Reply(item_docs)
    /\ Continue(AfterStoreLoad(item_docs, manifest))
    /\ UNCHANGED <<argument, workspace, request, manifest, calls, result, search, first, second>>

FsLoadCall ==
    /\ phase = "BackgroundRunning" /\ pc = "fs_load"
    /\ Call("fs.load", LocalCargoDocPath(CargoWorkspaceRoot(manifest).val,
                                        request.crate_name, request.item_path))
    /\ pc' = "fs_load_wait"
    /\ UNCHANGED <<phase, argument, workspace, request, manifest, replies, bg_value, result, search, first, second>>

FsLoadReturn(contents) ==
    /\ phase = "BackgroundRunning" /\ pc = "fs_load_wait"
    /\ Reply(contents)
    /\ Continue(AfterFsLoad(contents))
    /\ UNCHANGED <<argument, workspace, request, manifest, calls, result, search, first, second>>

HttpGetCall ==
    /\ phase = "BackgroundRunning" /\ pc = "http_get"
    /\ Call("http.get", [url |-> DocsRsUrl(request.crate_name, request.item_path),
                         follow_redirects |-> TRUE])
    /\ pc' = "http_get_wait"
    /\ UNCHANGED <<phase, argument, workspace, request, manifest, replies, bg_value, result, search, first, second>>

HttpGetReturn(response) ==
    /\ phase = "BackgroundRunning" /\ pc = "http_get_wait"
    /\ Reply(response)
    /\ Continue(AfterHttpGet(response))
    /\ UNCHANGED <<argument, workspace, request, manifest, calls, result, search, first, second>>

ReadBodyCall ==
    /\ phase = "BackgroundRunning" /\ pc = "read_body"
    /\ Call("body.read_to_end", <<>>)
    /\ pc' = "read_body_wait"
    /\ UNCHANGED <<phase, argument, workspace, request, manifest, replies, bg_value, result, search, first, second>>

ReadBodyReturn(body) ==
    /\ phase = "BackgroundRunning" /\ pc = "read_body_wait"
    /\ Reply(body)
    /\ Continue(AfterReadBody(replies[Len(replies)].val.status, body))
    /\ UNCHANGED <<argument, workspace, request, manifest, calls, result, search, first, second>>

\* ---------------------------------------------------------------- index

\* IndexedText without the crate name.
IndexedText_NoCrate(crate_name_to_index) == <<"Indexed ">>

\* The text of a finished index job.
IndexedText(crate_name_to_index) == <<"Indexed ">> \o crate_name_to_index

\* The index task: without a workspace root it fails before the Store is
\* called, with one it calls Store.index with a provider over that root.
IndexStart ==
    /\ phase = "BackgroundRunning" /\ pc = "index"
    /\ LET cargo_workspace_root == CargoWorkspaceRoot(manifest)
       IN  IF cargo_workspace_root.some
           THEN /\ Call("Store.index",
                        [crate_name |-> request.crate_name,
                         provider |-> [kind |-> "LocalProvider",
                                       cargo_workspace_root |-> cargo_workspace_root.val]])
                /\ pc' = "store_index_wait"
                /\ UNCHANGED <<phase, bg_value>>
           ELSE /\ Complete(Err(Error("no Cargo workspace root found")))
                /\ UNCHANGED <<calls, inflight>>
    /\ UNCHANGED <<argument, workspace, request, manifest, replies, result, search, first, second>>

StoreIndexReturn(indexed) ==
    /\ phase = "BackgroundRunning" /\ pc = "store_index_wait"
    /\ Reply(indexed)
    /\ Complete(IF indexed.ok
                THEN Ok([source |-> "Local", text |-> IndexedText(request.crate_name)])
                ELSE indexed)
    /\ UNCHANGED <<argument, workspace, request, manifest, calls, result, search, first, second>>

\* ---------------------------------------------------------------- foreground

\* The descriptor the section's render_placeholder closure captures.
Placeholder(req, source) ==
    IF req.kind = "index"
    THEN [kind |-> "RustdocIndexPlaceholder", source |-> "Local",
          crate_name |-> req.crate_name]
    ELSE [kind |-> "RustdocPlaceholder", source |-> source,
          crate_name |-> req.crate_name,
          module_path |-> IF req.item_path = <<>> THEN None
                          ELSE Some(Join(req.item_path, <<":", ":">>))]

\* Finalize asking the Store again from the foreground task.
Finalize_ReadsStore ==
    /\ phase \in {"Succeeded", "Failed"}
    /\ IF bg_value.val.ok
       THEN /\ result' = Some(Ok(SlashCommandOutput(
                              bg_value.val.val.text,
                              Placeholder(request, bg_value.val.val.source))))
            /\ phase' = "Finalized"
       ELSE /\ result' = Some(bg_value.val)
            /\ phase' = "Errored"
    /\ calls' = Append(calls, [op |-> "Store.load", args |-> <<>>,
                               context |-> "foreground"])
    /\ UNCHANGED <<argument, workspace, request, manifest, pc, inflight, replies, bg_value, search, first, second>>

\* The foreground task: awaits the background value, propagates its error or
\* wraps its text into the output.
Finalize ==
    /\ phase \in {"Succeeded", "Failed"}
    /\ IF bg_value.val.ok
       THEN /\ result' = Some(Ok(SlashCommandOutput(
                              bg_value.val.val.text,
                              Placeholder(request, bg_value.val.val.source))))
            /\ phase' = "Finalized"
       ELSE /\ result' = Some(bg_value.val)
            /\ phase' = "Errored"
    /\ UNCHANGED <<argument, workspace, request, manifest, pc, calls, inflight, replies, bg_value, search, first, second>>

RunNext ==
    \/ /\ phase = "Idle"
       /\ \E argument_ \in {None} \cup {Some(a) : a \in Arguments},
             workspace_alive \in BOOLEAN, path_to_cargo_toml \in ManifestPaths :
               Run(argument_, workspace_alive, path_to_cargo_toml)
    \/ StoreLoadCall
    \/ \E item_docs \in StoreLoadReplies : StoreLoadReturn(item_docs)
    \/ FsLoadCall
    \/ \E contents \in FsLoadReplies : FsLoadReturn(contents)
    \/ HttpGetCall
    \/ \E response \in HttpGetReplies : HttpGetReturn(response)
    \/ ReadBodyCall
    \/ \E body \in ReadBodyReplies : ReadBodyReturn(body)
    \/ IndexStart
    \/ \E indexed \in StoreIndexReplies : StoreIndexReturn(indexed)
    \/ Finalize

Next == RunNext

Spec == Init /\ [][Next]_vars

\* ---------------------------------------------------------------- run, twice

\* The command is run a second time with the argument, the workspace and the
\* manifest of the first run, once the first run has delivered; what the first
\* run was given, asked and delivered is kept for comparison.
Repeat ==
    /\ ~first.some
    /\ phase \in {"Finalized", "Errored"}
    /\ first' = Some([argument |-> argument,
                      workspace_alive |-> workspace = "alive",
                      manifest |-> manifest,
                      calls |-> calls,
                      replies |-> replies,
                      result |-> result])
    /\ phase' = "Idle"
    /\ UNCHANGED <<argument, workspace, request, manifest, pc, calls, inflight,
                   replies, bg_value, result, search, second>>

\* The Store, the file system and docs.rs have not changed since the first
\* run: the call in flight gets the answer the same call got then.
Unchanged(r) ==
    first.some =>
        \A i \in 1..Len(first.val.replies) :
            (/\ first.val.calls[i].op = calls[Len(calls)].op
             /\ first.val.calls[i] = calls[Len(calls)]) => r = first.val.replies[i]

\* The longest argument of a run that is repeated, in atoms.
MaxRepeatLen == 3

RepeatArguments == SeqsUpTo(ArgAtoms, MaxRepeatLen) \cup Examples

RepeatNext ==
    \/ /\ phase = "Idle" /\ ~first.some
       /\ \E argument_ \in {None} \cup {Some(a) : a \in RepeatArguments},
             workspace_alive \in BOOLEAN, path_to_cargo_toml \in ManifestPaths :
               Run(argument_, workspace_alive, path_to_cargo_toml)
    \/ /\ phase = "Idle" /\ first.some
       /\ Run(first.val.argument, first.val.workspace_alive, first.val.manifest)
    \/ Repeat
    \/ StoreLoadCall
    \/ \E item_docs \in StoreLoadReplies : StoreLoadReturn(item_docs) /\ Unchanged(item_docs)
    \/ FsLoadCall
    \/ \E contents \in FsLoadReplies : FsLoadReturn(contents) /\ Unchanged(contents)
    \/ HttpGetCall
    \/ \E response \in HttpGetReplies : HttpGetReturn(response) /\ Unchanged(response)
    \/ ReadBodyCall
    \/ \E body \in ReadBodyReplies : ReadBodyReturn(body) /\ Unchanged(body)
    \/ IndexStart
    \/ \E indexed \in StoreIndexReplies : StoreIndexReturn(indexed) /\ Unchanged(indexed)
    \/ Finalize

SpecRepeat == Init /\ [][RepeatNext]_vars

\* ---------------------------------------------------------------- run, abandoned

\* The caller drops the task run returned before it has resolved: the
\* foreground task never runs and nothing is delivered.
Abandon ==
    /\ phase \in {"BackgroundRunning", "Succeeded", "Failed"}
    /\ phase' = "Abandoned"
    /\ UNCHANGED <<argument, workspace, request, manifest, pc, calls, inflight,
                   replies, bg_value, result, search, first, second>>

AbandonNext == RunNext \/ Abandon

SpecAbandon == Init /\ [][AbandonNext]_vars

\* ---------------------------------------------------------------- complete_argument

\* Partial queries the editor asks completions for.
Queries == {<<>>, <<"a">>, <<"a", ":", ":">>}

\* (crate_name, item) matches the Store may answer with; item stands for
\* what item.display() prints.
Matches ==
    {[crate_name |-> c, item |-> i] :
        c \in {<<"a">>, <<"b">>}, i \in {<<"x">>, <<"y", ":", ":", "z">>}}

SearchReplies == SeqsUpTo(Matches, MaxMatches)

\* items.into_iter().map(|(crate_name, item)| format!("{crate_name}::{}", item.display()))
RECURSIVE FormatMatches(_)
FormatMatches(items) ==
    IF items = <<>> THEN <<>>
    ELSE <<Head(items).crate_name \o <<":", ":">> \o Head(items).item>>
             \o FormatMatches(Tail(items))

\* What the completion task answers once Store.search has answered; the
\* cancel flag is a parameter the code does not read.
Completions(items, cancel) == Ok(FormatMatches(items))

\* complete_argument(query, cancel, ..): spawns the search on the background
\* executor.
CompleteArgument(query) ==
    /\ search.pc = "idle"
    /\ search' = [search EXCEPT !.pc = "spawned", !.query = query]
    /\ UNCHANGED runVars

\* The caller sets the cancellation flag it shares with the task.
Cancel ==
    /\ search.pc # "idle"
    /\ ~search.cancel
    /\ search' = [search EXCEPT !.cancel = TRUE]
    /\ UNCHANGED runVars

SearchCall ==
    /\ search.pc = "spawned"
    /\ search' = [search EXCEPT !.pc = "search_wait", !.calls = @ + 1]
    /\ UNCHANGED runVars

SearchReturn(items) ==
    /\ search.pc = "search_wait"
    /\ search' = [search EXCEPT !.pc = "done",
                                !.items = items,
                                !.cancel_at_format = search.cancel,
                                !.completions = Some(Completions(items, search.cancel))]
    /\ UNCHANGED runVars

SearchNext ==
    \/ \E query \in Queries : CompleteArgument(query)
    \/ Cancel
    \/ SearchCall
    \/ \E items \in SearchReplies : SearchReturn(items)

SpecSearch == Init /\ [][SearchNext]_vars

\* ---------------------------------------------------------------- invocations at the same time

\* A second invocation of run, an index job, while the first invocation and a
\* completion are under way; all of them use the one global RustdocStore.
SecondArguments == {<<"--index", " ", "serde">>}

SecondRun(argument_, path_to_cargo_toml) ==
    /\ second.phase = "Idle"
    /\ LET parsed == ParseCommand(Some(argument_), TRUE)
       IN  /\ parsed.kind = "index"
           /\ second' = [second EXCEPT !.phase = "BackgroundRunning",
                                       !.crate_name = parsed.crate_name,
                                       !.manifest = path_to_cargo_toml]
    /\ UNCHANGED <<phase, argument, workspace, request, manifest, pc, calls, inflight,
                   replies, bg_value, result, search, first>>

\* SecondIndexStart leaving the crawl to an index job of the same crate that
\* has its call to the Store in flight.
SecondIndexStart_Dedup ==
    /\ second.phase = "BackgroundRunning" /\ second.calls = <<>>
    /\ LET cargo_workspace_root == CargoWorkspaceRoot(second.manifest)
       IN  IF cargo_workspace_root.some
           THEN IF /\ pc = "store_index_wait"
                   /\ request.crate_name = second.crate_name
                THEN second' = [second EXCEPT
                         !.bg_value = Some(Ok([source |-> "Local",
                                               text |-> IndexedText(second.crate_name)])),
                         !.phase = "Succeeded"]
                ELSE second' = [second EXCEPT !.calls = Append(@,
                         [op |-> "Store.index",
                          args |-> [crate_name |-> second.crate_name,
                                    provider |-> [kind |-> "LocalProvider",
                                                  cargo_workspace_root |-> cargo_workspace_root.val]],
                          context |-> "background"])]
           ELSE second' = [second EXCEPT
                    !.bg_value = Some(Err(Error("no Cargo workspace root found"))),
                    !.phase = "Failed"]
    /\ UNCHANGED <<phase, argument, workspace, request, manifest, pc, calls, inflight,
                   replies, bg_value, result, search, first>>

\* The index task of the second invocation (IndexStart, for second).
SecondIndexStart ==
    /\ second.phase = "BackgroundRunning" /\ second.calls = <<>>
    /\ LET cargo_workspace_root == CargoWorkspaceRoot(second.manifest)
       IN  IF cargo_workspace_root.some
           THEN second' = [second EXCEPT !.calls = Append(@,
                    [op |-> "Store.index",
                     args |-> [crate_name |-> second.crate_name,
                               provider |-> [kind |-> "LocalProvider",
                                             cargo_workspace_root |-> cargo_workspace_root.val]],
                     context |-> "background"])]
           ELSE second' = [second EXCEPT
                    !.bg_value = Some(Err(Error("no Cargo workspace root found"))),
                    !.phase = "Failed"]
    /\ UNCHANGED <<phase, argument, workspace, request, manifest, pc, calls, inflight,
                   replies, bg_value, result, search, first>>

\* The Store answers the second invocation (StoreIndexReturn, for second).
SecondIndexReturn(indexed) ==
    /\ second.phase = "BackgroundRunning"
    /\ second.calls # <<>> /\ second.replies = <<>>
    /\ LET v == IF indexed.ok
                THEN Ok([source |-> "Local", text |-> IndexedText(second.crate_name)])
                ELSE indexed
       IN  second' = [second EXCEPT !.replies = Append(@, indexed),
                                    !.bg_value = Some(v),
                                    !.phase = IF v.ok THEN "Succeeded" ELSE "Failed"]
    /\ UNCHANGED <<phase, argument, workspace, request, manifest, pc, calls, inflight,
                   replies, bg_value, result, search, first>>

\* The foreground task of the second invocation (Finalize, for second).
SecondFinalize ==
    /\ second.phase \in {"Succeeded", "Failed"}
    /\ second' = IF second.bg_value.val.ok
                 THEN [second EXCEPT
                          !.result = Some(Ok(SlashCommandOutput(
                              second.bg_value.val.val.text,
                              Placeholder([kind |-> "index",
                                           crate_name |-> second.crate_name], "Local")))),
                          !.phase = "Finalized"]
                 ELSE [second EXCEPT !.result = Some(second.bg_value.val),
                                     !.phase = "Errored"]
    /\ UNCHANGED <<phase, argument, workspace, request, manifest, pc, calls, inflight,
                   replies, bg_value, result, search, first>>

\* The query and the answers of the completion that runs at the same time.
ConcQueries == {<<"a">>}

ConcSearchReplies == {<<>>, <<[crate_name |-> <<"a">>, item |-> <<"x">>]>>}

ConcNext ==
    \/ /\ phase = "Idle"
       /\ \E argument_ \in {Some(a) : a \in Examples},
             workspace_alive \in BOOLEAN, path_to_cargo_toml \in ManifestPaths :
               Run(argument_, workspace_alive, path_to_cargo_toml)
    \/ StoreLoadCall
    \/ \E item_docs \in StoreLoadReplies : StoreLoadReturn(item_docs)
    \/ FsLoadCall
    \/ \E contents \in FsLoadReplies : FsLoadReturn(contents)
    \/ HttpGetCall
    \/ \E response \in HttpGetReplies : HttpGetReturn(response)
    \/ ReadBodyCall
    \/ \E body \in ReadBodyReplies : ReadBodyReturn(body)
    \/ IndexStart
    \/ \E indexed \in StoreIndexReplies : StoreIndexReturn(indexed)
    \/ Finalize
    \/ \E query \in ConcQueries : CompleteArgument(query)
    \/ SearchCall
    \/ \E items \in ConcSearchReplies : SearchReturn(items)
    \/ \E argument_ \in SecondArguments, path_to_cargo_toml \in ManifestPaths :
          SecondRun(argument_, path_to_cargo_toml)
    \/ SecondIndexStart
    \/ \E indexed \in StoreIndexReplies : SecondIndexReturn(indexed)
    \/ SecondFinalize

SpecConc == Init /\ [][ConcNext]_vars

\* ---------------------------------------------------------------- properties

\* The positions of the calls to one collaborator in this invocation.
CallsTo(op) == {i \in 1..Len(calls) : calls[i].op = op}

\* Calls and answers alternate, so answer i is the answer to call i.
Answered(i) == i <= Len(replies)

IsLookup == request.kind = "lookup"

\* The workspace root as the specification describes it: the directory of
\* the build manifest, when there is a manifest and it has a parent.
HasRoot == manifest.some /\ manifest.val # <<>>

Root == SubSeq(manifest.val, 1, Len(manifest.val) - 1)

StoreHit ==
    /\ IsLookup /\ Len(calls) >= 1 /\ calls[1].op = "Store.load"
    /\ Answered(1) /\ replies[1].ok

StoreMissed ==
    /\ IsLookup /\ Len(calls) >= 1 /\ calls[1].op = "Store.load"
    /\ Answered(1) /\ ~replies[1].ok

Delivered == phase \in {"Finalized", "Errored"}

\* C1: in lookup mode, once Store.load has answered with a text, the
\* background value and the final output are that text tagged Local, and the
\* invocation calls neither fs.load nor the HTTP client, with or without a
\* workspace root.
C1_StoreHitIsLocalOnly ==
    StoreHit =>
        /\ CallsTo("fs.load") = {} /\ CallsTo("http.get") = {}
        /\ CallsTo("body.read_to_end") = {}
        /\ bg_value = Some(Ok([source |-> "Local", text |-> replies[1].val]))
        /\ phase \in {"Succeeded", "Finalized"}
        /\ Delivered =>
              /\ result.val.ok
              /\ result.val.val.text = replies[1].val
              /\ result.val.val.sections[1].render_placeholder.source = "Local"

C1_Witness ==
    /\ StoreHit /\ HasRoot /\ phase = "Finalized"
    /\ request.crate_name = <<"a">> /\ request.item_path = << <<"a">> >>
    /\ result.val.val.text \in StoreDocs

\* The file the specification names for a request:
\* <root>/target/doc/<crate_name>/<segments joined by "/">/index.html, the
\* segment part left out for an empty item path.
RECURSIVE SegmentDirs(_)
SegmentDirs(item_path) ==
    IF item_path = <<>> THEN <<>>
    ELSE Components(Head(item_path)) \o SegmentDirs(Tail(item_path))

ExpectedLocalPath(root, crate_name, item_path) ==
    root \o << <<"target">>, <<"doc">> >> \o Components(crate_name)
         \o SegmentDirs(item_path) \o << <<"index.html">> >>

LocalFileLoaded ==
    /\ StoreMissed /\ HasRoot
    /\ Len(calls) >= 2 /\ calls[2].op = "fs.load"
    /\ Answered(2) /\ replies[2].ok

\* C2: in lookup mode, when Store.load missed, a workspace root exists and
\* fs.load answered with the bytes of a file, the file read is
\* <root>/target/doc/<crate_name>/<item path joined by "/">/index.html, the
\* result is the conversion of those bytes tagged Local (or the conversion's
\* error), and no HTTP GET is issued.
C2_LocalFileIsConverted ==
    LocalFileLoaded =>
        /\ calls[2].args = ExpectedLocalPath(Root, request.crate_name, request.item_path)
        /\ CallsTo("http.get") = {}
        /\ LET converted == convert_rustdoc_to_markdown(replies[2].val)
           IN  bg_value = Some(IF converted.ok
                               THEN Ok([source |-> "Local", text |-> converted.val])
                               ELSE Err(converted.err))

\* The URL the specification names for a request.
RECURSIVE SlashSeparated(_)
SlashSeparated(item_path) ==
    IF item_path = <<>> THEN <<>>
    ELSE IF Len(item_path) = 1 THEN item_path[1]
    ELSE SlashSeparated(SubSeq(item_path, 1, Len(item_path) - 1))
             \o <<"/">> \o item_path[Len(item_path)]

ExpectedUrl(crate_name, item_path) ==
    <<"https://docs.rs/">> \o crate_name \o <<"/latest/">> \o crate_name \o <<"/">>
        \o SlashSeparated(item_path)

\* Store.load missed and the local build lookup missed or was skipped.
BothMissed ==
    /\ StoreMissed
    /\ IF HasRoot
       THEN Len(calls) >= 2 /\ calls[2].op = "fs.load" /\ Answered(2) /\ ~replies[2].ok
       ELSE TRUE

ClientErrorClass == 400..499

\* The error a failed body read is delivered as: "error reading docs.rs
\* response body", caused by the error the read answered with.
ReadErrorOf(reply) ==
    [ok |-> FALSE,
     err |-> [kind |-> "error reading docs.rs response body", source |-> reply.err]]

\* The GET was answered with a response of the 4xx class and the task ended.
ClientErrorAnswered(i) ==
    /\ Answered(i) /\ replies[i].ok
    /\ replies[i].val.status \in ClientErrorClass
    /\ pc = "done"

IsStatusError(value, status) ==
    /\ value.some /\ ~value.val.ok
    /\ value.val.err.kind = "status error"
    /\ value.val.err.code = status

OneGetToExpectedUrl ==
    /\ Cardinality(CallsTo("http.get")) = IF pc = "http_get" THEN 0 ELSE 1
    /\ \A i \in CallsTo("http.get") :
          calls[i].args.url = ExpectedUrl(request.crate_name, request.item_path)

\* C3 as stated (for a request with a crate name): after both misses exactly
\* one GET is issued, to the derived URL, and every answer with a 4xx status
\* ends the invocation in a status error carrying that status.
C3_Original ==
    BothMissed /\ request.crate_name # <<>> =>
        /\ OneGetToExpectedUrl
        /\ \A i \in CallsTo("http.get") :
              ClientErrorAnswered(i) => IsStatusError(bg_value, replies[i].val.status)

\* C3: after both misses exactly one GET is issued, to the derived URL; for
\* every answer with a 4xx status whose body is read to its end the
\* invocation fails with a status error carrying that status and that body,
\* and when reading the body fails it fails with the read error; no text is
\* produced in either case.
C3_ClientErrorStatus ==
    BothMissed =>
        /\ OneGetToExpectedUrl
        /\ \A i \in CallsTo("http.get") :
              ClientErrorAnswered(i) =>
                  /\ calls[i + 1].op = "body.read_to_end"
                  /\ IF replies[i + 1].ok
                     THEN /\ IsStatusError(bg_value, replies[i].val.status)
                          /\ bg_value.val.err.response = replies[i + 1].val
                     ELSE bg_value = Some(ReadErrorOf(replies[i + 1]))
                  /\ phase \in {"Failed", "Errored"}
                  /\ Delivered => result = bg_value

C3_Witness ==
    /\ BothMissed /\ HasRoot /\ phase = "Errored"
    /\ request.crate_name = <<"a">> /\ request.item_path = << <<"a">> >>
    /\ \E i \in CallsTo("http.get") :
          /\ ClientErrorAnswered(i) /\ replies[i].val.status = 404
          /\ IsStatusError(result, 404)

\* C4: run with no argument, or with the empty string for argument, fails
\* with "missing crate name": no request is made of it and no collaborator
\* is called.
C4_MissingArgument ==
    (/\ phase # "Idle"
     /\ \/ ~argument.some
        \/ argument.val = <<>> /\ workspace = "alive")
    => /\ request.kind = "error"
       /\ request.err = Error("missing crate name")
       /\ calls = <<>>

\* C5: the crate name of every request the parser makes, and of every call
\* to Store.load or Store.index, is a non-empty string.
C5_CrateNameNonEmpty ==
    /\ request.kind \in {"lookup", "index"} => request.crate_name # <<>>
    /\ \A i \in CallsTo("Store.load") \cup CallsTo("Store.index") :
          calls[i].args.crate_name # <<>>

\* The tokens of an argument split on whitespace.
RECURSIVE TokensFrom(_, _)
TokensFrom(s, token) ==
    LET ended == IF token = <<>> THEN <<>> ELSE <<token>>
    IN  IF s = <<>> THEN ended
        ELSE IF IsWhitespace(Head(s))
             THEN ended \o TokensFrom(Tail(s), <<>>)
             ELSE TokensFrom(Tail(s), Append(token, Head(s)))

Tokens(s) == TokensFrom(s, <<>>)

\* The words of the argument the parser reads as the index flag: a word
\* "--index" that is not itself taken as the crate name of a flag before it.
RECURSIVE ReadAsFlag(_, _)
ReadAsFlag(words, i) ==
    /\ words[i] = IndexFlag
    /\ i = 1 \/ ~ReadAsFlag(words, i - 1)

\* The argument holds the index flag with a word after it.
FlagWithToken(words) == \E i \in 1..(Len(words) - 1) : ReadAsFlag(words, i)

\* The word after the last flag that has one.
LastIndexTarget(words) ==
    LET last == CHOOSE i \in 1..(Len(words) - 1) :
                    /\ ReadAsFlag(words, i)
                    /\ \A j \in (i + 1)..(Len(words) - 1) : ~ReadAsFlag(words, j)
    IN  words[last + 1]

ResolverCalls ==
    CallsTo("Store.load") \cup CallsTo("fs.load") \cup CallsTo("http.get")
        \cup CallsTo("body.read_to_end")

Parsed == phase # "Idle" /\ argument.some /\ workspace = "alive"

\* C6 as stated, for a live workspace and for the arguments whose words, as
\* the code cuts them, are their tokens split on whitespace (no empty word,
\* no whitespace inside a word): an argument holding the index flag followed
\* by a token always gives an index request, and no Resolver call.
C6_Original ==
    (/\ Parsed
     /\ Tokens(argument.val) = Words(argument.val)
     /\ FlagWithToken(Words(argument.val))) =>
        /\ request.kind = "index"
        /\ ResolverCalls = {}

\* C6: for a live workspace, the words of the argument being its pieces
\* between space characters, each trimmed (a piece may be empty): an argument
\* holding a word read as the index flag with a word after it, wherever the
\* flag sits and whatever other words there are, gives an index request for
\* the word after the last such flag, unless the last word of the argument is
\* itself read as the flag, and then the invocation fails with "no crate name
\* provided to --index"; the Resolver is called in neither case.
C6_IndexFlagMeansIndexMode ==
    Parsed /\ FlagWithToken(Words(argument.val)) =>
        LET words == Words(argument.val)
        IN  /\ IF ReadAsFlag(words, Len(words))
               THEN /\ request.kind = "error"
                    /\ request.err = Error("no crate name provided to --index")
                    /\ calls = <<>>
               ELSE /\ request.kind = "index"
                    /\ request.crate_name = LastIndexTarget(words)
                    /\ \A i \in 1..Len(calls) : calls[i].op = "Store.index"
            /\ ResolverCalls = {}

C6_Witness ==
    /\ Parsed /\ phase = "Finalized" /\ request.kind = "index"
    /\ Words(argument.val) = <<<<"tokio">>, IndexFlag, <<"a">>, IndexFlag, <<"serde">>>>
    /\ request.crate_name = <<"serde">>
    /\ calls[1].args.crate_name = <<"serde">>
    /\ ResolverCalls = {}

\* C7: an index job without a workspace root (no manifest, or a manifest path
\* without a parent) fails with "no Cargo workspace root found" and never
\* calls Store.index; Store.index is only called with a provider over the
\* workspace root.
C7_IndexNeedsWorkspaceRoot ==
    /\ (request.kind = "index" /\ ~HasRoot) =>
          /\ calls = <<>>
          /\ pc = "done" => bg_value = Some(Err(Error("no Cargo workspace root found")))
          /\ Delivered => result = Some(Err(Error("no Cargo workspace root found")))
          /\ phase \in {"BackgroundRunning", "Failed", "Errored"}
    /\ \A i \in CallsTo("Store.index") :
          /\ HasRoot
          /\ calls[i].args.provider.cargo_workspace_root = Root

C7_Witness ==
    /\ request.kind = "index" /\ manifest = Some(<<>>) /\ phase = "Errored"
    /\ request.crate_name = <<"a">> /\ calls = <<>>
    /\ result = Some(Err(Error("no Cargo workspace root found")))

\* C8: once complete_argument has answered, the answer is the empty list when
\* the cancellation flag was set before the matches were formatted, and
\* otherwise the Store's matches, in the Store's order, each as
\* "crate_name::item".
C8_CancelledSearchIsEmpty ==
    search.pc = "done" =>
        IF search.cancel_at_format
        THEN search.completions = Some(Ok(<<>>))
        ELSE /\ search.completions.val.ok
             /\ Len(search.completions.val.val) = Len(search.items)
             /\ \A i \in 1..Len(search.items) :
                   search.completions.val.val[i] =
                       search.items[i].crate_name \o <<":", ":">> \o search.items[i].item

\* The stage calls of a lookup, the body read counted with its GET.
StageCalls == SelectSeq([i \in 1..Len(calls) |-> calls[i].op],
                        LAMBDA op : op \in {"Store.load", "fs.load", "http.get"})

\* C9: in a lookup the stage calls are a prefix of Store.load, fs.load, HTTP
\* GET (fs.load left out exactly when there is no workspace root), at most
\* one call is in flight, a stage is called only after every stage before it
\* answered with a miss, and no collaborator is called twice.
C9_StagesInOrderOnce ==
    IsLookup =>
        /\ StageCalls \in
              IF HasRoot
              THEN {<<>>, <<"Store.load">>, <<"Store.load", "fs.load">>,
                    <<"Store.load", "fs.load", "http.get">>}
              ELSE {<<>>, <<"Store.load">>, <<"Store.load", "http.get">>}
        /\ inflight \in {0, 1}
        /\ inflight = Len(calls) - Len(replies)
        /\ \A op \in {"Store.load", "fs.load", "http.get", "body.read_to_end"} :
              Cardinality(CallsTo(op)) <= 1
        /\ \A i \in 2..Len(calls) :
              /\ Answered(i - 1)
              /\ calls[i].op \in {"fs.load", "http.get"} =>
                    \A j \in 1..(i - 1) : ~replies[j].ok

C9_Witness ==
    /\ IsLookup /\ pc = "done" /\ request.crate_name = <<"a">>
    /\ StageCalls = <<"Store.load", "fs.load", "http.get">>
    /\ CallsTo("body.read_to_end") # {}

\* C10: the output of every successful command, lookup or index, has exactly
\* one section, over [0, length of the text in bytes), carries the text of
\* the background task, and has run_commands_in_text false.
C10_OneSectionOverWholeText ==
    (result.some /\ result.val.ok) =>
        LET output == result.val.val
        IN  /\ phase = "Finalized"
            /\ output.text = bg_value.val.val.text
            /\ Len(output.sections) = 1
            /\ output.sections[1].range = [start |-> 0, end |-> ByteLen(output.text)]
            /\ output.run_commands_in_text = FALSE

C10_Witness ==
    /\ phase = "Finalized" /\ request.kind = "index"
    /\ result.val.val.text = <<"Indexed ", "a">>
    /\ result.val.val.sections[1].range = [start |-> 0, end |-> 9]

\* No word of the argument is the index flag.
NoFlag(words) == \A i \in 1..Len(words) : words[i] # IndexFlag

\* The words one after the other, nothing between them.
RECURSIVE Concatenated(_)
Concatenated(words) ==
    IF words = <<>> THEN <<>> ELSE Head(words) \o Concatenated(Tail(words))

\* The segments with "::" between them.
RECURSIVE ColonSeparated(_)
ColonSeparated(segments) ==
    IF Len(segments) = 1 THEN segments[1]
    ELSE ColonSeparated(SubSeq(segments, 1, Len(segments) - 1))
             \o <<":", ":">> \o segments[Len(segments)]

HasSeparator(segment) ==
    \E i \in 1..(Len(segment) - 1) : segment[i] = ":" /\ segment[i + 1] = ":"

EndsInColon(segment) == segment # <<>> /\ segment[Len(segment)] = ":"

\* What holds of the words the code cuts at the space character: without the
\* index flag the request is a lookup whose segments, with "::" between them,
\* are the words one after the other; no segment holds "::".
LookupParsingOfWords ==
    Parsed /\ NoFlag(Words(argument.val)) =>
        /\ request.kind = "lookup"
        /\ LET segments == <<request.crate_name>> \o request.item_path
           IN  /\ ColonSeparated(segments) = Concatenated(Words(argument.val))
               /\ \A i \in 1..Len(segments) : ~HasSeparator(segments[i])
               /\ \A i \in 1..(Len(segments) - 1) : ~EndsInColon(segments[i])

\* C11: for a live workspace and an argument whose tokens, split on
\* whitespace, do not hold the index flag, the request is a lookup whose crate
\* name and item path segments, in order and with "::" between them, are the
\* tokens concatenated without whitespace; no segment holds "::", and
\* "tokio::sync::Mutex" gives crate "tokio" and item path ["sync", "Mutex"].
C11_LookupParsing ==
    Parsed /\ NoFlag(Tokens(argument.val)) =>
        /\ request.kind = "lookup"
        /\ LET segments == <<request.crate_name>> \o request.item_path
           IN  /\ ColonSeparated(segments) = Concatenated(Tokens(argument.val))
               /\ \A i \in 1..Len(segments) : ~HasSeparator(segments[i])
        /\ argument.val = <<"tokio", ":", ":", "sync", ":", ":", "Mutex">> =>
              /\ request.crate_name = <<"tokio">>
              /\ request.item_path = << <<"sync">>, <<"Mutex">> >>

\* The example of C11, typed with spaces after the separators.
TokioExampleParsed ==
    /\ Parsed
    /\ argument.val = <<"tokio", ":", ":", " ", "sync", ":", ":", " ", "Mutex">>
    /\ request.crate_name = <<"tokio">>
    /\ request.item_path = << <<"sync">>, <<"Mutex">> >>
    /\ CallsTo("Store.load") # {}

\* C12 as stated (for a live workspace): an argument whose last word is the
\* index flag fails with "no crate name provided to --index", whatever comes
\* before the flag, and starts no background work.
C12_Original ==
    (Parsed /\ Words(argument.val)[Len(Words(argument.val))] = IndexFlag) =>
        /\ request.kind = "error"
        /\ request.err = Error("no crate name provided to --index")
        /\ calls = <<>>

\* C12: for a live workspace, an argument whose last word is read as the index
\* flag (it is "--index" and is not itself the crate name of an index flag
\* right before it) fails with "no crate name provided to --index" whatever
\* other words come before it, and no background work is started, so that no
\* collaborator is called.
C12_DanglingIndexFlag ==
    (Parsed /\ ReadAsFlag(Words(argument.val), Len(Words(argument.val)))) =>
        /\ request.kind = "error"
        /\ request.err = Error("no crate name provided to --index")
        /\ phase = "Errored"
        /\ result = Some(Err(Error("no crate name provided to --index")))
        /\ pc = "none" /\ bg_value = None
        /\ calls = <<>> /\ inflight = 0

C12_Witness ==
    /\ Parsed /\ argument.val = <<"a", " ", "--index">>
    /\ result = Some(Err(Error("no crate name provided to --index")))

\* C13: an index job with a workspace root calls Store.index once, with the
\* crate name of the request, and nothing else; when the Store answers done
\* the text is "Indexed <crate_name>" for the crate name of the call, and when
\* it answers with an error that error is the result and there is no output.
C13_IndexDispatch ==
    (request.kind = "index" /\ HasRoot) =>
        /\ Len(calls) = IF pc = "index" THEN 0 ELSE 1
        /\ \A i \in 1..Len(calls) :
              /\ calls[i].op = "Store.index"
              /\ calls[i].args.crate_name = request.crate_name
        /\ pc = "done" =>
              /\ Answered(1)
              /\ IF replies[1].ok
                 THEN /\ bg_value.val.ok
                      /\ bg_value.val.val.text = <<"Indexed ">> \o calls[1].args.crate_name
                      /\ Delivered =>
                            /\ result.val.ok
                            /\ result.val.val.text =
                                   <<"Indexed ">> \o calls[1].args.crate_name
                 ELSE /\ bg_value = Some(replies[1])
                      /\ phase \in {"Failed", "Errored"}
                      /\ Delivered => result = Some(replies[1])

C13_Witness ==
    /\ request.kind = "index" /\ HasRoot /\ phase = "Finalized"
    /\ calls[1].args.crate_name = <<"serde">>
    /\ result.val.val.text = <<"Indexed ", "serde">>

C13_FailureWitness ==
    /\ request.kind = "index" /\ HasRoot /\ phase = "Errored"
    /\ result = Some(Err(Error("StoreIndexError")))

\* The steps of an invocation's life: run either fails at once or starts the
\* background task, which ends as a success or a failure; the foreground task
\* then delivers; the caller may drop the task before that.
LifecycleSteps ==
    {<<"Idle", "BackgroundRunning">>, <<"Idle", "Errored">>,
     <<"BackgroundRunning", "Succeeded">>, <<"BackgroundRunning", "Failed">>,
     <<"Succeeded", "Finalized">>, <<"Failed", "Errored">>,
     <<"BackgroundRunning", "Abandoned">>, <<"Succeeded", "Abandoned">>,
     <<"Failed", "Abandoned">>}

\* What each phase holds: the background value exists from Succeeded / Failed
\* on, a result exists in Finalized and Errored only, and it is an output in
\* Finalized only, holding the whole text of the background value.
LifecycleState ==
    /\ phase \in {"Idle", "BackgroundRunning"} => bg_value = None /\ result = None
    /\ phase \in {"Succeeded", "Failed"} =>
          /\ bg_value.some /\ result = None
          /\ bg_value.val.ok <=> phase = "Succeeded"
    /\ phase = "Finalized" =>
          /\ bg_value.some /\ bg_value.val.ok
          /\ result.some /\ result.val.ok
          /\ result.val.val.text = bg_value.val.val.text
    /\ phase = "Errored" =>
          /\ result.some /\ ~result.val.ok
          /\ bg_value.some => ~bg_value.val.ok /\ result = bg_value
    /\ phase = "Abandoned" => result = None
    /\ (result.some /\ result.val.ok) <=> (bg_value.some /\ bg_value.val.ok /\ phase = "Finalized")

\* C15: an invocation moves Idle -> BackgroundRunning -> (Succeeded | Failed)
\* -> delivered, and fails straight from Idle when run returns a ready error;
\* the foreground step runs only once the background task has produced its
\* value, which is produced once and never changes; an output is delivered
\* exactly when the background task succeeded; an invocation that failed, or
\* that was abandoned before the foreground step, has delivered no text.
C15_Lifecycle ==
    [][/\ phase' # phase => <<phase, phase'>> \in LifecycleSteps
       /\ bg_value.some => bg_value' = bg_value
       /\ result.some => result' = result
       /\ result' # result => phase \in {"Idle", "Succeeded", "Failed"}
       /\ LifecycleState']_vars

C15_Witness ==
    /\ phase = "Abandoned"
    /\ bg_value.some /\ bg_value.val.ok
    /\ bg_value.val.val.text = <<"# a">>
    /\ result = None

\* The calls whose failure is a miss.
Swallowed == {"Store.load", "fs.load"}

\* The background task ended with this error and nothing was called after
\* call i; the error is what the invocation delivers.
EndsWith(i, error) ==
    /\ Len(calls) = i /\ pc = "done"
    /\ bg_value = Some(error)
    /\ phase \in {"Failed", "Errored"}
    /\ Delivered => result = Some(error)

\* The page answer i brought is converted (a file, or the body of a response
\* that is not of the 4xx class) and the conversion fails.
ConversionFails(i) ==
    /\ replies[i].ok
    /\ \/ calls[i].op = "fs.load"
       \/ /\ calls[i].op = "body.read_to_end"
          /\ replies[i - 1].val.status \notin ClientErrorClass
    /\ ~convert_rustdoc_to_markdown(replies[i].val).ok

\* C16: in a lookup, a failed Store.load or fs.load is not the outcome and the
\* next stage runs; a failed GET ends the task with that error, a failed body
\* read with that error under the context "error reading docs.rs response
\* body", and no call follows; a page that cannot be converted ends the task with
\* the conversion's error: after a local file no GET is issued, after a
\* response body nothing more is called.
C16_OnlyMissesAreSwallowed ==
    IsLookup =>
        \A i \in 1..Len(replies) :
            /\ ~replies[i].ok =>
                  IF calls[i].op \in Swallowed
                  THEN /\ bg_value # Some(replies[i])
                       /\ Len(calls) > i \/ pc \in {"fs_load", "http_get"}
                  ELSE EndsWith(i, IF calls[i].op = "body.read_to_end"
                                   THEN ReadErrorOf(replies[i])
                                   ELSE replies[i])
            /\ ConversionFails(i) =>
                  /\ EndsWith(i, Err(convert_rustdoc_to_markdown(replies[i].val).err))
                  /\ calls[i].op = "fs.load" => CallsTo("http.get") = {}

C16_Witness ==
    /\ LocalFileLoaded /\ request.crate_name = <<"a">>
    /\ replies[2] = Ok(BadPage)
    /\ phase = "Errored"
    /\ result = Some(Err(Error("ConversionFailure: rustdoc page could not be converted")))
    /\ CallsTo("http.get") = {}

\* The background value is what the answers to the GET (call g) and to the
\* body read decide: the first error of the two, a status error for a status
\* of the 4xx class, the conversion of the body tagged DocsDotRs otherwise.
RemoteDecides(g) ==
    /\ Answered(g)
    /\ IF ~replies[g].ok THEN bg_value = Some(replies[g])
       ELSE /\ Answered(g + 1)
            /\ IF ~replies[g + 1].ok THEN bg_value = Some(ReadErrorOf(replies[g + 1]))
               ELSE IF replies[g].val.status \in ClientErrorClass
               THEN IsStatusError(bg_value, replies[g].val.status)
               ELSE LET converted == convert_rustdoc_to_markdown(replies[g + 1].val)
                    IN  IF converted.ok
                        THEN bg_value = Some(Ok([source |-> "DocsDotRs",
                                                 text |-> converted.val]))
                        ELSE bg_value = Some(Err(converted.err))

\* C17: in a lookup without a workspace root (no manifest, or a manifest
\* path without a parent), once Store.load has missed no fs.load is called,
\* the next call is the GET, and the answers to the GET and to the body read
\* alone decide the result; the missing root is no error.
C17_NoRootSkipsLocalStage ==
    (StoreMissed /\ ~HasRoot) =>
        /\ CallsTo("fs.load") = {}
        /\ pc \notin {"fs_load", "fs_load_wait"}
        /\ pc = "http_get" \/ (Len(calls) >= 2 /\ calls[2].op = "http.get")
        /\ bg_value # Some(Err(Error("no Cargo workspace root found")))
        /\ pc = "done" =>
              /\ RemoteDecides(2)
              /\ Delivered =>
                    IF bg_value.val.ok
                    THEN /\ phase = "Finalized"
                         /\ result.val.val.text = bg_value.val.val.text
                    ELSE result = bg_value

C17_Witness ==
    /\ StoreMissed /\ manifest = None /\ request.crate_name = <<"a">>
    /\ phase = "Finalized"
    /\ Len(calls) = 3
    /\ result.val.val.text = <<"# a">>
    /\ result.val.val.sections[1].render_placeholder.source = "DocsDotRs"

\* Call g is a GET answered with a status outside the 4xx class whose body
\* was read to its end and converts.
RemotePageConverted(g) ==
    /\ calls[g].op = "http.get"
    /\ Answered(g + 1)
    /\ replies[g].ok /\ replies[g + 1].ok
    /\ replies[g].val.status \notin ClientErrorClass
    /\ convert_rustdoc_to_markdown(replies[g + 1].val).ok

TaggedRemote ==
    \/ bg_value.some /\ bg_value.val.ok /\ bg_value.val.val.source = "DocsDotRs"
    \/ /\ result.some /\ result.val.ok
       /\ result.val.val.sections[1].render_placeholder.source = "DocsDotRs"

\* C18: for every answer to the GET with a status outside the 4xx class (3xx
\* and 5xx included) whose body is read to its end and converts, the
\* invocation succeeds with the converted text tagged DocsDotRs; and the tag
\* DocsDotRs is given in that case only.
C18_OtherStatusIsConverted ==
    /\ IsLookup =>
          \A g \in 1..Len(calls) :
              RemotePageConverted(g) =>
                  LET text == convert_rustdoc_to_markdown(replies[g + 1].val).val
                  IN  /\ bg_value = Some(Ok([source |-> "DocsDotRs", text |-> text]))
                      /\ phase \in {"Succeeded", "Finalized"}
                      /\ phase = "Finalized" =>
                            /\ result.val.val.text = text
                            /\ result.val.val.sections[1].render_placeholder.source
                                   = "DocsDotRs"
    /\ TaggedRemote =>
          /\ IsLookup
          /\ \E g \in 1..Len(calls) : RemotePageConverted(g)

C18_Witness ==
    /\ IsLookup /\ request.crate_name = <<"a">> /\ phase = "Finalized"
    /\ \E g \in 1..Len(calls) :
          RemotePageConverted(g) /\ replies[g].val.status = 500
    /\ result.val.val.sections[1].render_placeholder.source = "DocsDotRs"

\* The collaborators whose calls suspend the task that makes them.
SuspendingCalls == {"Store.load", "Store.index", "fs.load", "http.get", "body.read_to_end"}

\* What the foreground task makes of the background value: the value's error,
\* or an output around the value's text.
Wraps(delivered, value) ==
    IF value.ok
    THEN delivered.ok /\ delivered.val.text = value.val.text
    ELSE delivered = value

\* C19: every call to a collaborator (Store.load, Store.index, fs.load, the
\* GET, the body read, Store.search) is made, and answered, in a step of a
\* background task; run's own step makes no call, and the foreground step
\* makes no call and awaits no answer: it only wraps the one value of the
\* background task into what is delivered.
C19_CallsOnlyInBackground ==
    [][/\ (calls' # calls \/ replies' # replies) =>
              /\ phase = "BackgroundRunning"
              /\ Len(calls') + Len(replies') = Len(calls) + Len(replies) + 1
       /\ \A i \in 1..Len(calls') :
              calls'[i].op \in SuspendingCalls /\ calls'[i].context = "background"
       /\ search'.calls # search.calls => search.pc = "spawned"
       /\ second'.calls # second.calls =>
              /\ second.phase = "BackgroundRunning"
              /\ \A i \in 1..Len(second'.calls) : second'.calls[i].context = "background"
       /\ (phase \in {"Succeeded", "Failed"} /\ phase' # phase) =>
              /\ UNCHANGED <<calls, replies, inflight, bg_value>>
              /\ inflight = 0
              /\ Wraps(result'.val, bg_value.val)
       /\ (second.phase \in {"Succeeded", "Failed"} /\ second'.phase # second.phase) =>
              /\ second'.calls = second.calls /\ second'.replies = second.replies
              /\ Wraps(second'.result.val, second.bg_value.val)
       /\ (phase = "Idle" /\ phase' # phase) => calls' = <<>> /\ inflight' = 0]_vars

C19_Witness ==
    /\ phase = "Finalized" /\ IsLookup /\ Len(calls) = 4
    /\ \A i \in 1..4 : calls[i].context = "background"
    /\ search.pc = "done" /\ search.calls = 1
    /\ second.phase = "Finalized" /\ Len(second.calls) = 1

\* An invocation that stands at a call to the Store can make it, whatever the
\* other invocations are doing.
NoStoreCallWaits ==
    /\ (phase = "BackgroundRunning" /\ pc = "store_load") => ENABLED StoreLoadCall
    /\ (phase = "BackgroundRunning" /\ pc = "index") => ENABLED IndexStart
    /\ search.pc = "spawned" => ENABLED SearchCall
    /\ (second.phase = "BackgroundRunning" /\ second.calls = <<>>) => ENABLED SecondIndexStart

\* An index job with a workspace root has called Store.index once when its
\* task has ended, and never more than once.
EachIndexJobCallsOnce ==
    /\ (request.kind = "index" /\ HasRoot) =>
          /\ Cardinality(CallsTo("Store.index")) = IF pc = "index" THEN 0 ELSE 1
          /\ pc = "done" => calls[1].args.crate_name = request.crate_name
    /\ (second.phase # "Idle" /\ CargoWorkspaceRoot(second.manifest).some) =>
          /\ Len(second.calls) <= 1
          /\ second.phase # "BackgroundRunning" =>
                /\ Len(second.calls) = 1
                /\ second.calls[1].op = "Store.index"
                /\ second.calls[1].args.crate_name = second.crate_name

\* The value of an ended background task is what the answers to its own
\* calls decide.
OwnAnswersDecide ==
    /\ (pc = "done" /\ request.kind = "index" /\ HasRoot) =>
          bg_value = Some(IF replies[1].ok
                          THEN Ok([source |-> "Local",
                                   text |-> <<"Indexed ">> \o request.crate_name])
                          ELSE replies[1])
    /\ (pc = "done" /\ IsLookup) =>
          IF replies[1].ok
          THEN bg_value = Some(Ok([source |-> "Local", text |-> replies[1].val]))
          ELSE IF calls[2].op = "fs.load"
               THEN IF replies[2].ok
                    THEN LET converted == convert_rustdoc_to_markdown(replies[2].val)
                         IN  bg_value = Some(IF converted.ok
                                             THEN Ok([source |-> "Local",
                                                      text |-> converted.val])
                                             ELSE Err(converted.err))
                    ELSE RemoteDecides(3)
               ELSE RemoteDecides(2)
    /\ (second.replies # <<>>) =>
          second.bg_value = Some(IF second.replies[1].ok
                                 THEN Ok([source |-> "Local",
                                          text |-> <<"Indexed ">> \o second.crate_name])
                                 ELSE second.replies[1])
    /\ (search.pc = "done") =>
          search.completions = Some(Ok(FormatMatches(search.items)))

\* The variables of the first invocation.
OfFirstInvocation ==
    <<phase, argument, workspace, request, manifest, pc, calls, inflight, replies,
      bg_value, result>>

\* C20: with a lookup or index job, a completion and a second index job under
\* way at once on the one Store, in every interleaving: an invocation that
\* stands at a Store call can make it whatever the others are doing; each
\* index job with a workspace root calls Store.index once, also when the other
\* job indexes the same crate; a step of one invocation changes nothing of the
\* others; and each outcome is what the answers to its own calls decide.
C20_NoLockNoDedup ==
    [][/\ NoStoreCallWaits
       /\ EachIndexJobCallsOnce'
       /\ OwnAnswersDecide'
       /\ OfFirstInvocation' # OfFirstInvocation => UNCHANGED <<search, second>>
       /\ search' # search => UNCHANGED <<OfFirstInvocation, second>>
       /\ second' # second => UNCHANGED <<OfFirstInvocation, search>>]_vars

C20_Witness ==
    /\ request.kind = "index" /\ pc = "store_index_wait"
    /\ second.phase = "BackgroundRunning" /\ Len(second.calls) = 1
    /\ second.replies = <<>>
    /\ request.crate_name = second.crate_name
    /\ calls[1].args = second.calls[1].args
    /\ search.pc = "search_wait"

====
